---------------------------- MODULE Spec2Model ----------------------------
(* A model of the PhotonIO core:                                            *)
(*   - photonio-base/src/io/read.rs : ReadExt::read_exact and               *)
(*     ReadAtExt::read_exact_at, the exact-fill loops over a single-shot     *)
(*     Read / ReadAt source (specification SpecRead);                        *)
(*   - src/io/op.rs : the operation constructors, each an async block that   *)
(*     builds a submission entry, hands it to the driver's submit and maps   *)
(*     the raw result (specification SpecOp);                                *)
(*   - photonio/src/task/schedule.rs : the Schedule contract between wakers  *)
(*     and a worker's run queue (specification SpecSched);                   *)
(*   - photonio-macros/src/lib.rs : the attribute macros main and test,      *)
(*     which rewrite an entry function (specification SpecMacro).            *)
EXTENDS Integers, Sequences, FiniteSets, TLC

(***************************************************************************)
(* Bounds of the model                                                     *)
(***************************************************************************)
\* longest destination buffer handed to read_exact / read_exact_at
MaxLen == 6
\* how many times the source may answer Interrupted during one call
MaxInterrupts == 2
\* width of the position counter in the model (u64 in the source, scaled)
PosBits == 3

\* futures built by the op constructors in one run
MaxFuts == 2
\* completion slots of the driver (its submission capacity)
SubmissionCapacity == 2

\* tasks of one worker thread
MaxTasks == 3

\* options written in one attribute, and the largest integer literal among them
MaxAttrs == 2
MaxLit == 2

PosModulus == 2 ^ PosBits

VARIABLES
    \* ---- read.rs ----
    kind,       \* which loop runs: "read_exact" or "read_exact_at"
    buflen,     \* length L of the destination slice passed by the caller
    start,      \* the pos argument of read_exact_at (0 for read_exact)
    dest,       \* the caller's destination memory, dest[1..buflen]
    off,        \* buf = dest[off+1 .. buflen]: start of the unfilled window
    pos,        \* the mut pos: u64 of read_exact_at
    rpc,        \* "loop" (at the while test), "await" (in self.read(..).await), "done"
    result,     \* what the future resolved to
    calls,      \* history: every sub-read issued, with its window and outcome
    cursor      \* the sequential source's own cursor (bytes delivered so far)

readVars == <<kind, buflen, start, dest, off, pos, rpc, result, calls, cursor>>

VARIABLES
    \* ---- op.rs and the driver it submits to ----
    fut,        \* the futures returned by the constructors, by index
    mem,        \* the buffer each operation binds: is it allocated, what it holds
    slots,      \* the driver's completion slots, by operation identifier
    inflight,   \* submission entries the OS holds and has not completed
    cq,         \* completion events the OS has posted and drive() has not drained
    submitted,  \* the calls of submit each existing future made, entry and outcome
    wakes       \* how many times the waker of each existing future was invoked

opVars == <<fut, mem, slots, inflight, cq, submitted, wakes>>

VARIABLES
    \* ---- schedule.rs and the run queue of one worker ----
    runq,       \* the run queue: entries [task, by], by the call that enqueued
    current,    \* the task being polled, or NoTask
    batch,      \* entries of the current drain that were not run yet
    snap,       \* the run queue as it was when the current drain began
    ran,        \* how many times each task was run in the current drain
    waited      \* per queued task, the runs of other tasks since it was enqueued

schedVars == <<runq, current, batch, snap, ran, waited>>

VARIABLES
    \* ---- photonio-macros/src/lib.rs ----
    attr,       \* the attribute's tokens: the options written in #[main(..)]
    item,       \* the item the attribute is placed on
    is_test,    \* which macro expanded the item: test (TRUE) or main
    expanded    \* the token stream the macro returned

macroVars == <<attr, item, is_test, expanded>>

vars == <<readVars, opVars, schedVars, macroVars>>

\* what the steps of each part leave alone
exceptRead == <<opVars, schedVars, macroVars>>
exceptOp == <<readVars, schedVars, macroVars>>
exceptSched == <<readVars, opVars, macroVars>>
exceptMacro == <<readVars, opVars, schedVars>>

(***************************************************************************)
(* Values                                                                  *)
(***************************************************************************)
Kinds == {"read_exact", "read_exact_at"}

\* content of a destination byte the call never wrote
Untouched == 0

\* io::ErrorKind values a source may fail with
SourceErrorKinds == {"Interrupted", "UnexpectedEof", "Other"}

NoResult == [tag |-> "None", kind |-> "", src |-> 0]
OkResult == [tag |-> "Ok", kind |-> "", src |-> 0]
PanicResult == [tag |-> "Panic", kind |-> "", src |-> 0]
\* an io::Error of kind k; src is the sub-read that produced it (0: made by the loop)
ErrResult(k, i) == [tag |-> "Err", kind |-> k, src |-> i]

\* the k-th byte (1-based) a sequential source delivers
StreamByte(k) == k
\* the byte a positional source holds at position q
ByteAt(q) == q + 1


(***************************************************************************)
(* read.rs: the exact-fill loops                                           *)
(***************************************************************************)
\* BufIsEmpty with a fault: the loop test never sees an empty window
BufIsNeverEmpty == FALSE

\* buf.is_empty() of the while test
BufIsEmpty == off = buflen

\* buf.len(): the length of the unfilled window
BufLen == buflen - off

\* SliceFrom with a fault: the new window is cut from the whole destination
SliceFromStart(o, n) == n

\* buf = &mut buf[n..]: the window starts n bytes further
SliceFrom(o, n) == o + n

\* the bounds check of buf[n..]: the slice index panics when n > buf.len()
SliceInBounds(n) == n <= BufLen

\* AdvancePos with a fault: the position is not advanced
AdvancePosForgotten(q, n) == q

\* pos += n as u64, on a u64: the sum modulo 2^64 (a build with overflow checks
\* panics on this line instead of wrapping)
AdvancePos(q, n) == (q + n) % PosModulus

\* IsInterrupted with a fault: the retry arm has no guard and absorbs every error
IsAnyError(k) == TRUE

\* IsInterrupted with a fault: the retry arm is missing
IsNeverRetried(k) == FALSE

\* the guard of the third arm: Err(e) if e.kind() == ErrorKind::Interrupted
IsInterrupted(k) == k = "Interrupted"

\* EofError with a fault: a zero-length sub-read ends the call with success
EofAsSuccess == OkResult

\* Ok(0) => return Err(ErrorKind::UnexpectedEof.into())
EofError == ErrResult("UnexpectedEof", 0)

\* Propagate with a fault: every propagated error is reported as an end of stream
PropagateAsEof(k, i) == ErrResult("UnexpectedEof", i)

\* Err(e) => return Err(e): the error of sub-read i, as it is
Propagate(k, i) == ErrResult(k, i)

\* the last sub-read of the history, with its outcome filled in
Answer(out, n, k) ==
    [calls EXCEPT ![Len(calls)] = [@ EXCEPT !.out = out, !.n = n, !.kind = k]]

\* what an honest source leaves in the destination when it answers Ok(n): the
\* first n bytes of the window it was given (all of it when it over-reports),
\* taken from its stream (Read) or from position pos onwards (ReadAt)
SourceWrite(n) ==
    LET m == IF n <= BufLen THEN n ELSE BufLen
    IN  [i \in 1..buflen |->
            IF off < i /\ i <= off + m
            THEN IF kind = "read_exact"
                 THEN StreamByte(cursor + (i - off))
                 ELSE ByteAt((pos + (i - off) - 1) % PosModulus)
            ELSE dest[i]]

\* SubRead with a fault: every sub-read is given the whole destination
SubReadWholeBuffer ==
    /\ rpc = "loop"
    /\ ~BufIsEmpty
    /\ rpc' = "await"
    /\ calls' = Append(calls, [off |-> 0, len |-> buflen, pos |-> pos,
                               out |-> "Pending", n |-> 0, kind |-> ""])
    /\ UNCHANGED <<kind, buflen, start, dest, off, pos, result, cursor>>
    /\ UNCHANGED exceptRead

\* while !buf.is_empty() { match self.read(buf).await / self.read_at(buf, pos).await
SubRead ==
    /\ rpc = "loop"
    /\ ~BufIsEmpty
    /\ rpc' = "await"
    /\ calls' = Append(calls, [off |-> off, len |-> BufLen, pos |-> pos,
                               out |-> "Pending", n |-> 0, kind |-> ""])
    /\ UNCHANGED <<kind, buflen, start, dest, off, pos, result, cursor>>
    /\ UNCHANGED exceptRead

\* the loop ends with the window empty: Ok(())
LoopExit ==
    /\ rpc = "loop"
    /\ BufIsEmpty
    /\ rpc' = "done"
    /\ result' = OkResult
    /\ UNCHANGED <<kind, buflen, start, dest, off, pos, calls, cursor>>
    /\ UNCHANGED exceptRead

\* ArmZero with a fault: a sub-read of 0 bytes is tried again
ArmZeroRetries ==
    /\ rpc = "await"
    /\ calls' = Answer("Ok", 0, "")
    /\ rpc' = "loop"
    /\ UNCHANGED <<kind, buflen, start, dest, off, pos, result, cursor>>
    /\ UNCHANGED exceptRead

\* Ok(0) => return Err(ErrorKind::UnexpectedEof.into())
ArmZero ==
    /\ rpc = "await"
    /\ calls' = Answer("Ok", 0, "")
    /\ rpc' = "done"
    /\ result' = EofError
    /\ UNCHANGED <<kind, buflen, start, dest, off, pos, cursor>>
    /\ UNCHANGED exceptRead

\* Ok(n) => buf = &mut buf[n..] (and pos += n as u64 in read_exact_at)
ArmOk(n) ==
    /\ rpc = "await"
    /\ n >= 1 /\ n <= BufLen + 1
    /\ calls' = Answer("Ok", n, "")
    /\ dest' = SourceWrite(n)
    /\ cursor' = IF kind = "read_exact"
                 THEN cursor + (IF n <= BufLen THEN n ELSE BufLen)
                 ELSE cursor
    /\ IF SliceInBounds(n)
       THEN /\ off' = SliceFrom(off, n)
            /\ pos' = IF kind = "read_exact_at" THEN AdvancePos(pos, n) ELSE pos
            /\ rpc' = "loop"
            /\ UNCHANGED result
       ELSE /\ rpc' = "done"
            /\ result' = PanicResult
            /\ UNCHANGED <<off, pos>>
    /\ UNCHANGED <<kind, buflen, start>>
    /\ UNCHANGED exceptRead

\* ArmErr with a fault: the retry after Interrupted moves the window on by one byte
ArmErrSkipsByte(k) ==
    /\ rpc = "await"
    /\ k = "Interrupted" =>
          Cardinality({i \in 1..Len(calls) : calls[i].kind = "Interrupted"}) < MaxInterrupts
    /\ calls' = Answer("Err", 0, k)
    /\ IF IsInterrupted(k)
       THEN /\ rpc' = "loop"
            /\ off' = IF BufLen > 1 THEN off + 1 ELSE off
            /\ UNCHANGED result
       ELSE /\ rpc' = "done"
            /\ result' = Propagate(k, Len(calls))
            /\ UNCHANGED off
    /\ UNCHANGED <<kind, buflen, start, dest, pos, cursor>>
    /\ UNCHANGED exceptRead

\* Err(e) if e.kind() == ErrorKind::Interrupted => {}   and   Err(e) => return Err(e)
ArmErr(k) ==
    /\ rpc = "await"
    /\ k = "Interrupted" =>
          Cardinality({i \in 1..Len(calls) : calls[i].kind = "Interrupted"}) < MaxInterrupts
    /\ calls' = Answer("Err", 0, k)
    /\ IF IsInterrupted(k)
       THEN /\ rpc' = "loop"
            /\ UNCHANGED result
       ELSE /\ rpc' = "done"
            /\ result' = Propagate(k, Len(calls))
    /\ UNCHANGED <<kind, buflen, start, dest, off, pos, cursor>>
    /\ UNCHANGED exceptRead

\* a call read_exact(buf) or read_exact_at(buf, pos), about to run its loop
ReadInit ==
    /\ kind \in Kinds
    /\ buflen \in 0..MaxLen
    /\ start \in IF kind = "read_exact_at" THEN 0..(PosModulus - 1) ELSE {0}
    /\ dest = [i \in 1..buflen |-> Untouched]
    /\ off = 0
    /\ pos = start
    /\ rpc = "loop"
    /\ result = NoResult
    /\ calls = << >>
    /\ cursor = 0

ReadNext ==
    \/ SubRead
    \/ LoopExit
    \/ ArmZero
    \/ \E n \in 1..(MaxLen + 1) : ArmOk(n)
    \/ \E k \in SourceErrorKinds : ArmErr(k)

(***************************************************************************)
(* op.rs: the operation constructors, and the driver behind submit          *)
(***************************************************************************)
Futs == 1..MaxFuts
\* operation identifiers: the driver gives each submission an identifier of its
\* own, here the index of the future that submitted it
SlotIds == Futs

\* the constructors of op.rs
Ops == {"accept", "connect", "open", "close", "read", "write", "fstat",
        "fsync", "fdatasync"}

\* the opcode:: entry each constructor builds
Opcode(op) ==
    CASE op = "accept" -> "Accept"
      [] op = "connect" -> "Connect"
      [] op = "open" -> "OpenAt"
      [] op = "close" -> "Close"
      [] op = "read" -> "Read"
      [] op = "write" -> "Write"
      [] op = "fstat" -> "Statx"
      [] op = "fsync" -> "Fsync"
      [] op = "fdatasync" -> "Fsync"

\* .flags(types::FsyncFlags::DATASYNC) of fdatasync
EntryFlags(op) == IF op = "fdatasync" THEN "DATASYNC" ELSE ""

\* where the memory an entry points to lives: in the async block's own state
\* (addr and addr_len of accept, stat of fstat, the SockAddr moved into connect,
\* the CString moved into open), in the caller's borrowed slice (read, write),
\* or nowhere (the entry carries no pointer)
Bound(op) ==
    CASE op \in {"accept", "fstat", "connect", "open"} -> "frame"
      [] op \in {"read", "write"} -> "caller"
      [] OTHER -> "none"

\* the operations whose buffer the OS writes at completion
KernelWrites(op) == op \in {"accept", "fstat", "read"}

\* mem::zeroed()
ZeroAddr == 0
\* mem::size_of::<libc::sockaddr_storage>()
SockaddrStorageSize == 128

Buf(a, l) == [a |-> a, l |-> l]
NoBuf == Buf(ZeroAddr, 0)
\* let mut addr = unsafe { mem::zeroed() }; let mut addr_len = size_of::<sockaddr_storage>()
ZeroedAddr == Buf(ZeroAddr, SockaddrStorageSize)
\* what the OS may write into a bound buffer: a peer address and its length
\* for accept, the stat structure for fstat, the bytes read for read
PeerAddrs == {Buf(1, 16), Buf(2, 28)}
StatValue == Buf(7, 0)
ReadData(n) == Buf(9, n)

\* raw results an operation may complete with: a negated errno, or a value
ENOENT == 2
ECANCELED == 125
RawResults == {0 - ENOENT, 5}
\* what a completion event may carry: a raw result, or the cancellation
Completions == RawResults \cup {0 - ECANCELED}

NoOut == [tag |-> "None", kind |-> "", val |-> 0, addr |-> NoBuf]
OutErr(k, code) == [tag |-> "Err", kind |-> k, val |-> code, addr |-> NoBuf]
OutOk(v, b) == [tag |-> "Ok", kind |-> "", val |-> v, addr |-> b]

\* PathError with a fault: the result of the path conversion is not looked at
PathNeverChecked(f) == FALSE

\* CString::new(path.as_os_str().as_bytes()) fails on an embedded NUL;
\* pstr.map_err(|_| Error::from(ErrorKind::InvalidFilename))?
PathError(f) == fut[f].op = "open" /\ fut[f].nul

\* SockAddr::init(|a, l| { *a = addr; *l = addr_len; Ok(()) }): the copy of the
\* address buffer taken where the async block runs this statement, which is
\* before submit(sqe)
CapturedSockAddr(b) == b

\* .map(..) of each constructor, applied to the Ok value of the awaited result:
\* accept: (fd, sock_addr); open: fd; read, write: n; fstat: stat, read when the
\* closure runs; the others: ()
MapOk(f, raw) ==
    CASE fut[f].op = "accept" -> OutOk(raw, fut[f].sock_addr)
      [] fut[f].op \in {"open", "read", "write"} -> OutOk(raw, NoBuf)
      [] fut[f].op = "fstat" -> OutOk(0, mem[f].val)
      [] OTHER -> OutOk(0, NoBuf)

\* the output of the operation future submit returned, an io::Result<u32>: a
\* negative raw result is the OS error of that code, any other is the value
Awaited(raw) ==
    IF raw < 0 THEN [ok |-> FALSE, v |-> 0 - raw] ELSE [ok |-> TRUE, v |-> raw]

\* ResultMap with a fault: the closure is applied to errors as well
ResultMapTotal(f, r) == MapOk(f, r.v)

\* Result::map: the closure is applied to an Ok value, an Err passes through
ResultMap(f, r) == IF r.ok THEN MapOk(f, r.v) ELSE OutErr("Os", r.v)

\* submit(sqe)?.await.map(..): what the block returns for a raw result
Resolve(f, raw) == ResultMap(f, Awaited(raw))

\* SubmitError with a fault: the Err of submit is taken for a success
SubmitErrorSwallowed(e) == OutOk(0, NoBuf)

\* submit(sqe)?: an Err of submit leaves the async block with that error
SubmitError(e) == OutErr(e, 0)

\* Waker with a fault: every operation is polled with the first future's waker
WakerOfFirst(f) == 1

\* .await inside the async block: the operation submit returned is polled with
\* the context of the future that awaits it, so the waker it registers is that
\* future's
Waker(f) == f

\* the thread is inside a drop that waits for a cancellation to be confirmed
Blocked == \E f \in Futs : fut[f].st = "Dropping"

\* Driver.submit has room for one more outstanding submission, when the
\* operations of other tasks of the runtime hold `others` of its slots
HasCapacity(others) ==
    Cardinality({i \in SlotIds : slots[i].state # "Free"}) + others < SubmissionCapacity

FreeSlot == [state |-> "Free", raw |-> 0, owner |-> 0]

\* a future that no longer exists, and memory that was released
Gone ==
    [op |-> "none", st |-> "Dropped", nul |-> FALSE, id |-> 0, out |-> NoOut,
     sock_addr |-> NoBuf, suspended |-> FALSE, raw |-> 0]
Freed == [live |-> FALSE, val |-> NoBuf, owner |-> "none"]

\* CallerMayRelease with a fault: the future does not hold the borrow of buf
CallerMayReleaseAnytime(f) == TRUE

\* read<'a>(fd, buf: &'a mut [u8]) -> impl Future + 'a: the slice stays borrowed
\* for as long as the future exists
CallerMayRelease(f) == fut[f].st \in {"Done", "Dropped"}

\* AsyncBlock with a fault: the block's body runs where it is written, so the
\* constructor itself submits the entry
AsyncBlockRunsEagerly(log, op) ==
    Append(log, [f |-> 0, opcode |-> Opcode(op), flags |-> EntryFlags(op),
                 ok |-> TRUE, id |-> 0])

\* async move { .. }: building the block runs none of its body, so the calls
\* of submit made so far are what they were
AsyncBlock(log, op) == log

\* the constructor is called: nothing runs but what precedes the async block
\* (open converts its path); read and write borrow the caller's slice, connect
\* and open move their operand into the block
Construct(f, op, nul) ==
    /\ ~Blocked
    /\ fut[f].st = "Unused"
    /\ \A g \in Futs : g < f => fut[g].st # "Unused"
    /\ nul => op = "open"
    /\ fut' = [fut EXCEPT ![f] = [@ EXCEPT !.op = op, !.st = "NotSubmitted", !.nul = nul]]
    /\ mem' = [mem EXCEPT ![f] =
                  IF op \in {"read", "write", "connect", "open"}
                  THEN [live |-> TRUE, val |-> NoBuf, owner |-> Bound(op)] ELSE @]
    /\ submitted' = [submitted EXCEPT ![f] = AsyncBlock(@, op)]
    /\ UNCHANGED <<slots, inflight, cq, wakes>>
    /\ UNCHANGED exceptOp

\* the first poll runs the async block up to its await: the path check of open,
\* the locals (addr, addr_len, sock_addr of accept; stat of fstat), the entry,
\* submit(sqe)? and the first poll of the operation it returns
PollFirst(f, others) ==
    /\ ~Blocked
    /\ fut[f].st = "NotSubmitted"
    /\ IF PathError(f)
       THEN /\ fut' = [fut EXCEPT ![f] =
                          [@ EXCEPT !.st = "Done", !.out = OutErr("InvalidFilename", 0)]]
            /\ UNCHANGED <<mem, slots, inflight, submitted>>
       ELSE LET frame == IF fut[f].op \in {"accept"} THEN ZeroedAddr
                         ELSE IF fut[f].op = "fstat" THEN NoBuf
                         ELSE mem[f].val
                entry == [f |-> f, opcode |-> Opcode(fut[f].op),
                          flags |-> EntryFlags(fut[f].op)]
            IN  IF ~HasCapacity(others)
                THEN \* submit(sqe)? fails: the block returns the error
                     /\ fut' = [fut EXCEPT ![f] =
                                   [@ EXCEPT !.st = "Done",
                                             !.sock_addr = CapturedSockAddr(frame),
                                             !.out = SubmitError("ResourceExhausted")]]
                     /\ submitted' = [submitted EXCEPT ![f] =
                                         Append(@, entry @@ [ok |-> FALSE, id |-> 0])]
                     /\ mem' = [mem EXCEPT ![f] =
                                   IF Bound(fut[f].op) = "frame"
                                   THEN [live |-> TRUE, val |-> frame, owner |-> "frame"] ELSE @]
                     /\ UNCHANGED <<slots, inflight>>
                ELSE /\ fut' = [fut EXCEPT ![f] =
                                   [@ EXCEPT !.st = "Pending", !.id = f,
                                             !.sock_addr = CapturedSockAddr(frame),
                                             !.suspended = TRUE]]
                     /\ submitted' = [submitted EXCEPT ![f] =
                                         Append(@, entry @@ [ok |-> TRUE, id |-> f])]
                     /\ slots' = [slots EXCEPT ![f] =
                                     [state |-> "Pending", raw |-> 0, owner |-> Waker(f)]]
                     /\ inflight' = inflight \cup
                                       {[id |-> f, f |-> f, op |-> fut[f].op]}
                     /\ mem' = [mem EXCEPT ![f] =
                                   IF Bound(fut[f].op) = "frame"
                                   THEN [live |-> TRUE, val |-> frame, owner |-> "frame"] ELSE @]
    /\ UNCHANGED <<cq, wakes>>
    /\ UNCHANGED exceptOp

\* a later poll: the operation is still pending (the waker is registered again
\* and the future suspends), or its result is there and the block maps it and
\* returns; the block's state stays allocated until the future is dropped
PollAgain(f) ==
    /\ ~Blocked
    /\ fut[f].st = "Pending"
    /\ LET slot == slots[fut[f].id]
       IN  IF slot.state = "Completed"
           THEN /\ fut' = [fut EXCEPT ![f] =
                              [@ EXCEPT !.st = "Done", !.out = Resolve(f, slot.raw),
                                        !.raw = slot.raw]]
                /\ slots' = [slots EXCEPT ![fut[f].id] = FreeSlot]
                /\ UNCHANGED mem
           ELSE UNCHANGED <<fut, slots, mem>>
    /\ UNCHANGED <<inflight, cq, submitted, wakes>>
    /\ UNCHANGED exceptOp

\* the OS completes an entry it holds: it writes the bound buffer of a
\* successful accept, fstat or read and posts the completion event
KernelComplete(s, raw, peer) ==
    /\ s \in inflight
    /\ raw = 0 - ECANCELED => slots[s.id].state = "Cancelled"
    /\ (s.op # "accept" \/ raw < 0) => peer = Buf(1, 16)
    /\ inflight' = inflight \ {s}
    /\ cq' = cq \cup {[id |-> s.id, raw |-> raw]}
    /\ mem' = [mem EXCEPT ![s.f] =
                  IF raw >= 0 /\ KernelWrites(s.op)
                  THEN [@ EXCEPT !.val =
                            CASE s.op = "accept" -> peer
                              [] s.op = "fstat" -> StatValue
                              [] s.op = "read" -> ReadData(raw)]
                  ELSE @]
    /\ UNCHANGED <<fut, slots, submitted, wakes>>
    /\ UNCHANGED exceptOp

\* drive(): every available completion event is looked up by identifier; a
\* pending slot takes the raw result and its waker is invoked once; the slot of
\* a cancelled operation is destroyed, which lets the waiting drop return
Drive ==
    /\ cq # {}
    /\ LET ids == {c.id : c \in cq}
           rawOf(i) == (CHOOSE c \in cq : c.id = i).raw
           woken == {slots[i].owner : i \in {j \in ids : slots[j].state = "Pending"}}
           gone == {slots[i].owner : i \in {j \in ids : slots[j].state = "Cancelled"}}
       IN  /\ slots' = [i \in SlotIds |->
                          IF i \in ids /\ slots[i].state = "Pending"
                          THEN [slots[i] EXCEPT !.state = "Completed", !.raw = rawOf(i)]
                          ELSE IF i \in ids /\ slots[i].state = "Cancelled"
                          THEN FreeSlot
                          ELSE slots[i]]
           /\ wakes' = [f \in Futs |->
                          IF f \in woken THEN wakes[f] + 1
                          ELSE IF f \in gone THEN 0 ELSE wakes[f]]
           /\ fut' = [f \in Futs |-> IF f \in gone THEN Gone ELSE fut[f]]
           /\ submitted' = [f \in Futs |-> IF f \in gone THEN << >> ELSE submitted[f]]
           /\ mem' = [f \in Futs |->
                        IF f \in gone /\ Bound(fut[f].op) = "frame"
                        THEN Freed ELSE mem[f]]
    /\ cq' = {}
    /\ UNCHANGED inflight
    /\ UNCHANGED exceptOp

\* the future is dropped. Not submitted, resolved, or completed and not yet
\* polled: its state is released at once. Pending: the operation is cancelled
\* and the drop waits until the driver has seen its completion; the future's
\* state stays allocated until then
DropFuture(f) ==
    /\ ~Blocked
    /\ fut[f].st \in {"NotSubmitted", "Pending", "Done"}
    /\ IF fut[f].st = "Pending" /\ slots[fut[f].id].state = "Pending"
       THEN /\ fut' = [fut EXCEPT ![f] = [@ EXCEPT !.st = "Dropping"]]
            /\ slots' = [slots EXCEPT ![fut[f].id] = [@ EXCEPT !.state = "Cancelled"]]
            /\ UNCHANGED <<mem, wakes, submitted>>
       ELSE /\ fut' = [fut EXCEPT ![f] = Gone]
            /\ slots' = IF fut[f].st = "Pending"
                        THEN [slots EXCEPT ![fut[f].id] = FreeSlot] ELSE slots
            /\ mem' = [mem EXCEPT ![f] = IF Bound(fut[f].op) = "frame" THEN Freed ELSE @]
            /\ wakes' = [wakes EXCEPT ![f] = 0]
            /\ submitted' = [submitted EXCEPT ![f] = << >>]
    /\ UNCHANGED <<inflight, cq>>
    /\ UNCHANGED exceptOp

\* the caller frees or reuses the slice it lent to read or write
ReleaseBuf(f) ==
    /\ ~Blocked
    /\ mem[f].owner = "caller"
    /\ mem[f].live
    /\ CallerMayRelease(f)
    /\ mem' = [mem EXCEPT ![f] = Freed]
    /\ UNCHANGED <<fut, slots, inflight, cq, submitted, wakes>>
    /\ UNCHANGED exceptOp

OpInit ==
    /\ fut = [f \in Futs |->
                [op |-> "none", st |-> "Unused", nul |-> FALSE, id |-> 0,
                 out |-> NoOut, sock_addr |-> NoBuf, suspended |-> FALSE,
                 raw |-> 0]]
    /\ mem = [f \in Futs |-> Freed]
    /\ slots = [i \in SlotIds |-> FreeSlot]
    /\ inflight = {}
    /\ cq = {}
    /\ submitted = [f \in Futs |-> << >>]
    /\ wakes = [f \in Futs |-> 0]

OpNext ==
    \/ \E f \in Futs, op \in Ops, nul \in BOOLEAN : Construct(f, op, nul)
    \/ \E f \in Futs : \E others \in 0..SubmissionCapacity : PollFirst(f, others)
    \/ \E f \in Futs : PollAgain(f)
    \/ \E s \in inflight : \E raw \in Completions : \E peer \in PeerAddrs :
          KernelComplete(s, raw, peer)
    \/ Drive
    \/ \E f \in Futs : DropFuture(f)
    \/ \E f \in Futs : ReleaseBuf(f)

(***************************************************************************)
(* The Schedule contract and a worker's run queue                          *)
(***************************************************************************)
Tasks == 1..MaxTasks
NoTask == 0

\* the tasks of a queue, and the place (1-based) of a task in it
Queued(q) == {q[i].task : i \in 1..Len(q)}
Place(q, t) == CHOOSE i \in 1..Len(q) : q[i].task = t

\* a task that waits for a wake-up: neither running nor queued
Idle(t) == t # current /\ t \notin Queued(runq)

\* Enqueue with a fault: the task is put at the head of the run queue
EnqueueAtHead(q, t, by) == <<[task |-> t, by |-> by]>> \o q

\* both calls of the contract put the task behind everything already queued
Enqueue(q, t, by) == Append(q, [task |-> t, by |-> by])

\* the waiting counters when one more task has been run
OneMoreRun(w, q) ==
    [t \in Tasks |-> IF t \in Queued(q) /\ w[t] < MaxTasks THEN w[t] + 1 ELSE w[t]]

\* fn schedule(&self, task: Task): a waker hands an idle task to the executor
Schedule(t) ==
    /\ Idle(t)
    /\ runq' = Enqueue(runq, t, "schedule")
    /\ waited' = [waited EXCEPT ![t] = 0]
    /\ UNCHANGED <<current, batch, snap, ran>>
    /\ UNCHANGED exceptSched

\* fn yield_now(&self, task: Task): the task being polled gives up the thread
\* and asks to be run again
YieldNow(t) ==
    /\ current = t
    /\ runq' = Enqueue(runq, t, "yield_now")
    /\ waited' = [waited EXCEPT ![t] = 0]
    /\ current' = NoTask
    /\ UNCHANGED <<batch, snap, ran>>
    /\ UNCHANGED exceptSched

\* the poll of the running task returns without a requeue: the task waits for
\* I/O, or is finished
Suspend(t) ==
    /\ current = t
    /\ current' = NoTask
    /\ UNCHANGED <<runq, batch, snap, ran, waited>>
    /\ UNCHANGED exceptSched

\* the worker starts to drain its run queue once: it will run the entries that
\* are queued now
DrainBegin ==
    /\ current = NoTask
    /\ batch = 0
    /\ runq # << >>
    /\ batch' = Len(runq)
    /\ snap' = runq
    /\ ran' = [t \in Tasks |-> 0]
    /\ UNCHANGED <<runq, current, waited>>
    /\ UNCHANGED exceptSched

\* the worker takes the head of the run queue and polls it
RunNext ==
    /\ current = NoTask
    /\ batch > 0
    /\ current' = Head(runq).task
    /\ runq' = Tail(runq)
    /\ batch' = batch - 1
    /\ ran' = [ran EXCEPT ![Head(runq).task] = @ + 1]
    /\ waited' = OneMoreRun(waited, Tail(runq))
    /\ UNCHANGED snap
    /\ UNCHANGED exceptSched

SchedInit ==
    /\ runq = << >>
    /\ current = NoTask
    /\ batch = 0
    /\ snap = << >>
    /\ ran = [t \in Tasks |-> 0]
    /\ waited = [t \in Tasks |-> 0]

SchedNext ==
    \/ \E t \in Tasks : Schedule(t)
    \/ \E t \in Tasks : YieldNow(t)
    \/ \E t \in Tasks : Suspend(t)
    \/ DrainBegin
    \/ RunNext

(***************************************************************************)
(* The attribute macros main and test                                      *)
(***************************************************************************)
\* literals an option may carry: an integer literal that fits usize, one that
\* does not, a literal of another kind; "None" stands for an option that is
\* not written as name = literal
IntLit(v) == [kind |-> "Int", v |-> v]
NoValue == 0
Lits ==
    {IntLit(v) : v \in 1..MaxLit} \cup
    {[kind |-> k, v |-> NoValue] : k \in {"IntOverflow", "Str", "None"}}

\* the path of an option: the identifier num_threads, another identifier, or
\* a path that is no single identifier ("")
AttrNames == {"num_threads", "worker_threads", ""}
MetaNameValues == [path : AttrNames, lit : Lits]

RECURSIVE SeqsUpTo(_, _)
\* the sequences over S of length at most n
SeqsUpTo(S, n) ==
    IF n = 0 THEN {<< >>}
    ELSE LET shorter == SeqsUpTo(S, n - 1)
         IN  shorter \cup {Append(q, x) : q \in {r \in shorter : Len(r) = n - 1}, x \in S}

AttrStreams == SeqsUpTo(MetaNameValues, MaxAttrs)

\* the annotated item: a function (async or not) with its body, or anything else
Items ==
    {[isFn |-> TRUE, asyncness |-> a, block |-> "body"] : a \in BOOLEAN} \cup
    {[isFn |-> FALSE, asyncness |-> FALSE, block |-> ""]}

\* Option<usize>, and Options { num_threads } / syn::Error as a Result
None == [some |-> FALSE, v |-> NoValue]
Some(v) == [some |-> TRUE, v |-> v]
OkOpts(nt) == [ok |-> TRUE, num_threads |-> nt, err |-> ""]
ErrOpts(msg) == [ok |-> FALSE, num_threads |-> None, err |-> msg]

\* parse_int with a fault: every literal is taken for the integer 1
parse_int_any(lit) == [ok |-> TRUE, v |-> 1, err |-> ""]

\* if let syn::Lit::Int(i) = lit { if let Ok(v) = i.base10_parse() { return Ok(v) } }
\* Err(syn::Error::new(lit.span(), "failed to parse int"))
parse_int(lit) ==
    IF lit.kind = "Int" THEN [ok |-> TRUE, v |-> lit.v, err |-> ""]
    ELSE [ok |-> FALSE, v |-> NoValue, err |-> "failed to parse int"]

RECURSIVE ParseFrom(_, _, _)
\* for attr in attrs { .. } of Options::parse, from the i-th option on
ParseFrom(attrs, i, nt) ==
    IF i > Len(attrs) THEN OkOpts(nt)
    ELSE IF attrs[i].path = "" THEN ErrOpts("missing attribute name")
    ELSE IF attrs[i].path = "num_threads"
         THEN LET r == parse_int(attrs[i].lit)
              IN  IF r.ok THEN ParseFrom(attrs, i + 1, Some(r.v)) ELSE ErrOpts(r.err)
    ELSE ErrOpts("unknown attribute name")

\* Attributes::parse_terminated.parse(input)?: every option is name = literal
ParseTerminated(input) == \A i \in 1..Len(input) : input[i].lit.kind # "None"

\* Options::parse
OptionsParse(input) ==
    IF ~ParseTerminated(input) THEN ErrOpts("syntax error")
    ELSE ParseFrom(input, 1, None)

\* item.extend(TokenStream::from(error.into_compile_error())); item
token_stream_with_error(tokens, error) ==
    [tag |-> "Error", tokens |-> tokens, compile_error |-> error]

Call(name, arg) == [call |-> name, arg |-> arg]

\* let mut rt = quote! { photonio::runtime::Builder::new() };
\* if let Some(v) = opts.num_threads { rt = quote! { #rt.num_threads(#v) } }
Rt(nt) ==
    IF nt.some
    THEN <<Call("photonio::runtime::Builder::new", NoValue), Call("num_threads", nt.v)>>
    ELSE <<Call("photonio::runtime::Builder::new", NoValue)>>

\* let head = if is_test { quote! { #[::std::prelude::v1::test] } } else { quote! {} }
HeadTokens(t) == IF t THEN <<"#[::std::prelude::v1::test]">> ELSE << >>

\* fn transform(attr, item, is_test)
transform(a, it, t) ==
    LET opts == OptionsParse(a)
    IN  IF ~opts.ok THEN token_stream_with_error(a, opts.err)
        ELSE IF ~it.isFn THEN token_stream_with_error(it, "expected fn")
        ELSE [tag |-> "Fn",
              head |-> HeadTokens(t),
              asyncness |-> FALSE,
              \* let block = async #block;
              inner |-> [asyncness |-> TRUE, block |-> it.block],
              \* #rt.build().expect("failed to build runtime").block_on(block)
              chain |-> Rt(opts.num_threads) \o
                        <<Call("build", NoValue), Call("expect", NoValue),
                          Call("block_on", NoValue)>>]

NotExpanded == [tag |-> "None"]

\* #[proc_macro_attribute] pub fn main
Main ==
    /\ expanded = NotExpanded
    /\ expanded' = transform(attr, item, FALSE)
    /\ is_test' = FALSE
    /\ UNCHANGED <<attr, item>>
    /\ UNCHANGED exceptMacro

\* #[proc_macro_attribute] pub fn test
Test ==
    /\ expanded = NotExpanded
    /\ expanded' = transform(attr, item, TRUE)
    /\ is_test' = TRUE
    /\ UNCHANGED <<attr, item>>
    /\ UNCHANGED exceptMacro

MacroInit ==
    /\ attr \in AttrStreams
    /\ item \in Items
    /\ is_test = FALSE
    /\ expanded = NotExpanded

\* no macro is being expanded
NoMacro ==
    /\ attr = << >>
    /\ item = [isFn |-> FALSE, asyncness |-> FALSE, block |-> ""]
    /\ is_test = FALSE
    /\ expanded = NotExpanded

MacroNext == Main \/ Test

(***************************************************************************)
(* Specifications                                                          *)
(***************************************************************************)
\* one call of read_exact or read_exact_at, over every source behaviour
SpecReadInit == ReadInit /\ OpInit /\ SchedInit /\ NoMacro
SpecRead == SpecReadInit /\ [][ReadNext]_vars

\* the same call, polled until it resolves by a caller that awaits it, over a
\* source that answers every sub-read and answers Interrupted at most
\* MaxInterrupts times
SpecReadFair == SpecRead /\ WF_vars(ReadNext)

\* up to MaxFuts operations built, polled, completed and dropped in any order
NoRead ==
    /\ kind = "read_exact" /\ buflen = 0 /\ start = 0 /\ dest = << >> /\ off = 0
    /\ pos = 0 /\ rpc = "done" /\ result = NoResult /\ calls = << >> /\ cursor = 0
SpecOpInit == OpInit /\ NoRead /\ SchedInit /\ NoMacro
SpecOp == SpecOpInit /\ [][OpNext]_vars

\* one worker thread: tasks are woken, run, yield and suspend in any order
SpecSchedInit == SchedInit /\ NoRead /\ OpInit /\ NoMacro
SpecSched == SpecSchedInit /\ [][SchedNext]_vars

\* one expansion of main or test, over every attribute and item
SpecMacroInit == MacroInit /\ NoRead /\ OpInit /\ SchedInit
SpecMacro == SpecMacroInit /\ [][MacroNext]_vars


(***************************************************************************)
(* Properties of the exact-fill loops                                      *)
(***************************************************************************)
RECURSIVE SumReturned(_, _)
\* the byte counts returned by the successful sub-reads among the first i
SumReturned(s, i) ==
    IF i = 0 THEN 0
    ELSE SumReturned(s, i - 1) + (IF s[i].out = "Ok" THEN s[i].n ELSE 0)

Returned == SumReturned(calls, Len(calls))

Succeeded == rpc = "done" /\ result.tag = "Ok"
FailedWith(k) == rpc = "done" /\ result.tag = "Err" /\ result.kind = k

\* the byte the source holds for destination index i of this call
Expected(i) ==
    IF kind = "read_exact" THEN StreamByte(i)
    ELSE ByteAt((start + i - 1) % PosModulus)

\* the destination holds the source's bytes, in order, in its first k places
\* and is as the caller passed it from there on
PopulatedUpTo(k) ==
    \A i \in 1..buflen : dest[i] = IF i <= k THEN Expected(i) ELSE Untouched

ZeroSubRead(i) == calls[i].out = "Ok" /\ calls[i].n = 0 /\ calls[i].len > 0
InterruptedSubRead(i) == calls[i].out = "Err" /\ calls[i].kind = "Interrupted"
FailedSubRead(i) == calls[i].out = "Err" /\ calls[i].kind # "Interrupted"

\* C1: for a non-empty buffer of length L, read_exact returns success if and only
\* if the lengths returned by its sub-reads sum exactly to L; and a success of
\* read_exact or read_exact_at means the whole buffer was populated.
C1_SuccessIffSumIsLen ==
    (rpc = "done" /\ buflen > 0) =>
        /\ kind = "read_exact" => (result.tag = "Ok" <=> Returned = buflen)
        /\ result.tag = "Ok" => (off = buflen /\ PopulatedUpTo(buflen))

C1_Witness ==
    /\ Succeeded /\ kind = "read_exact" /\ buflen >= 3 /\ Len(calls) >= 2

\* C2 as stated: read_exact returns UnexpectedEof if and only if some sub-read
\* returned 0 bytes while bytes of the buffer remained unfilled.
C2_EofIffZeroSubRead ==
    (rpc = "done" /\ kind = "read_exact") =>
        (FailedWith("UnexpectedEof") <=> \E i \in 1..Len(calls) : ZeroSubRead(i))

\* C2 amended: read_exact returns UnexpectedEof if and only if some sub-read
\* returned 0 bytes while bytes remained unfilled, or a sub-read itself failed
\* with an error of kind UnexpectedEof (which is propagated as it is).
C2_EofIffZeroOrSourceEof ==
    (rpc = "done" /\ kind = "read_exact") =>
        (FailedWith("UnexpectedEof") <=>
            \E i \in 1..Len(calls) :
                \/ ZeroSubRead(i)
                \/ (calls[i].out = "Err" /\ calls[i].kind = "UnexpectedEof"))

C2_Witness ==
    /\ kind = "read_exact" /\ FailedWith("UnexpectedEof") /\ result.src = 0
    /\ off >= 1 /\ off < buflen /\ ZeroSubRead(Len(calls))

\* C3: after a sub-read fails with Interrupted, the next sub-read is issued on
\* the same unfilled window (same start, same length, same position), and the
\* retry neither skips nor repeats a byte: while the call runs, the filled part
\* of the destination is exactly the source's bytes in order, and a sequential
\* source has handed out exactly as many bytes as the destination holds.
C3_RetrySameWindow ==
    /\ \A i \in 1..(Len(calls) - 1) :
          InterruptedSubRead(i) =>
              /\ calls[i + 1].off = calls[i].off
              /\ calls[i + 1].len = calls[i].len
              /\ calls[i + 1].pos = calls[i].pos
    /\ ((\E i \in 1..Len(calls) : InterruptedSubRead(i)) /\ result.tag # "Panic") =>
          /\ PopulatedUpTo(off)
          /\ kind = "read_exact" => cursor = off

C3_Witness ==
    /\ Len(calls) >= 3
    /\ calls[1].out = "Ok" /\ calls[1].n >= 1
    /\ InterruptedSubRead(2)
    /\ calls[3].out = "Ok" /\ calls[3].n >= 1
    /\ kind = "read_exact_at"

\* C4: read_exact and read_exact_at never return an error of kind Interrupted;
\* a call whose source answered Interrupted and then delivered enough bytes to
\* fill the buffer returns success, with the buffer populated.
C4_InterruptedNeverSurfaces ==
    /\ ~(result.tag = "Err" /\ result.kind = "Interrupted")
    /\ (/\ rpc = "done"
        /\ \E i \in 1..Len(calls) : InterruptedSubRead(i)
        /\ Returned = buflen
        /\ \A i \in 1..Len(calls) : InterruptedSubRead(i) \/ (calls[i].out = "Ok" /\ calls[i].n >= 1))
       => (result.tag = "Ok" /\ PopulatedUpTo(buflen))

\* Scenario B: Interrupted, then 4 bytes into a 4-byte buffer
C4_Witness ==
    /\ Succeeded /\ buflen = 4 /\ Len(calls) = 2
    /\ InterruptedSubRead(1)
    /\ calls[2].out = "Ok" /\ calls[2].n = 4

\* C5 as stated: every sub-read of read_exact_at(buf, p) is issued at position
\* p plus the number of bytes already filled.
C5_PositionsAreStartPlusFilled ==
    kind = "read_exact_at" =>
        \A i \in 1..Len(calls) : calls[i].pos = start + calls[i].off

\* C5 amended: every sub-read of read_exact_at(buf, p) is issued at position
\* p plus the bytes already filled, taken modulo 2^64 (so at exactly p plus the
\* bytes already filled whenever p + L does not exceed 2^64); the bytes already
\* filled are the sum of the counts of the earlier successful sub-reads; on
\* success the counts sum to L; and while the loop runs the position counter is
\* p plus the bytes filled, modulo 2^64.
C5_PositionsModuloWidth ==
    kind = "read_exact_at" =>
        /\ \A i \in 1..Len(calls) :
              /\ calls[i].off = SumReturned(calls, i - 1)
              /\ calls[i].pos = (start + calls[i].off) % PosModulus
              /\ start + buflen <= PosModulus => calls[i].pos = start + calls[i].off
        /\ rpc # "done" => pos = (start + off) % PosModulus
        /\ Succeeded => Returned = buflen

C5_Witness ==
    /\ kind = "read_exact_at" /\ Succeeded /\ start >= 1
    /\ Len(calls) >= 3
    /\ \A i \in 1..Len(calls) : calls[i].out = "Ok"

\* C6: when a sub-read fails with an error other than Interrupted, the call
\* returns that same error at once and issues no further sub-read; the
\* destination is filled exactly up to the last successful sub-read.
C6_OtherErrorsPropagate ==
    \A i \in 1..Len(calls) :
        FailedSubRead(i) =>
            /\ i = Len(calls)
            /\ rpc = "done"
            /\ result = ErrResult(calls[i].kind, i)
            /\ off = Returned
            /\ PopulatedUpTo(off)

C6_Witness ==
    /\ Len(calls) >= 2 /\ FailedSubRead(Len(calls)) /\ off >= 1
    /\ calls[Len(calls)].kind = "Other"

\* C7: when read_exact fails with UnexpectedEof after successful sub-reads
\* totalling k < L bytes, exactly the first k bytes of the destination are
\* populated, in order, and bytes k..L are untouched.
C7_EofLeavesPrefix ==
    (FailedWith("UnexpectedEof") /\ result.src = 0) =>
        /\ Returned < buflen
        /\ off = Returned
        /\ PopulatedUpTo(Returned)

\* Scenario A: 3 bytes, 2 bytes, 0 bytes into a 6-byte buffer
C7_Witness ==
    /\ kind = "read_exact" /\ FailedWith("UnexpectedEof") /\ buflen = 6
    /\ Len(calls) = 3
    /\ calls[1].n = 3 /\ calls[2].n = 2 /\ calls[3].n = 0
    /\ dest = <<StreamByte(1), StreamByte(2), StreamByte(3), StreamByte(4),
                StreamByte(5), Untouched>>

\* the i-th sub-read was answered, and not with Interrupted
Counted(i) == calls[i].out # "Pending" /\ ~InterruptedSubRead(i)

\* every sub-read that is not Interrupted ends the call or leaves a window
\* shorter by at least one byte, so at most L of them are issued for a buffer
\* of length L; a sub-read answered Interrupted leaves the loop about to issue
\* the same sub-read again
C17_Bounded ==
    /\ Cardinality({i \in 1..Len(calls) : Counted(i)}) <= buflen
    /\ \A i \in 1..Len(calls) :
          /\ Counted(i) =>
                IF i < Len(calls)
                THEN calls[i + 1].len <= calls[i].len - 1
                ELSE rpc = "done" \/ (rpc = "loop" /\ BufLen <= calls[i].len - 1)
          /\ InterruptedSubRead(i) =>
                IF i < Len(calls)
                THEN calls[i + 1].len = calls[i].len
                ELSE rpc = "loop" /\ ~BufIsEmpty /\ result = NoResult

\* C17: read_exact and read_exact_at terminate when the source answers
\* Interrupted only finitely many times: the bound above holds throughout and
\* the call resolves.
C17_Terminates == []C17_Bounded /\ <>(rpc = "done")

\* a 3-byte buffer filled by three sub-reads of one byte, the most the bound
\* allows, with MaxInterrupts answers of Interrupted in between
C17_Witness ==
    /\ Succeeded /\ buflen = 3
    /\ Cardinality({i \in 1..Len(calls) : Counted(i)}) = 3
    /\ Cardinality({i \in 1..Len(calls) : InterruptedSubRead(i)}) = MaxInterrupts
    /\ InterruptedSubRead(1) /\ InterruptedSubRead(2)

\* C18: every sub-read is given exactly the unfilled suffix of the
\* destination: it starts after the bytes already filled (the sum of the
\* counts returned so far), its length is L minus that and is at least one;
\* so a sub-read that returned 0 was asked for at least one byte, and ends the
\* call with UnexpectedEof.
C18_SubReadGetsUnfilledSuffix ==
    \A i \in 1..Len(calls) :
        /\ calls[i].off = SumReturned(calls, i - 1)
        /\ calls[i].len = buflen - calls[i].off
        /\ calls[i].len >= 1
        /\ (calls[i].out = "Ok" /\ calls[i].n = 0) =>
              /\ ZeroSubRead(i)
              /\ i = Len(calls)
              /\ FailedWith("UnexpectedEof")

\* two partial sub-reads and a retry, then end of stream with bytes missing
C18_Witness ==
    /\ Len(calls) = 4
    /\ calls[1].out = "Ok" /\ calls[1].n = 2
    /\ InterruptedSubRead(2)
    /\ calls[3].out = "Ok" /\ calls[3].n = 1 /\ calls[3].len = buflen - 2
    /\ ZeroSubRead(4) /\ calls[4].len = buflen - 3
    /\ FailedWith("UnexpectedEof")

\* C19: called with an empty destination, read_exact and read_exact_at return
\* success at once: no sub-read is issued, the call never waits for the
\* source, nothing is written, and the only result is Ok.
C19_EmptyBufferSucceedsAtOnce ==
    buflen = 0 =>
        /\ calls = << >>
        /\ rpc \in {"loop", "done"}
        /\ cursor = 0 /\ pos = start /\ dest = << >>
        /\ result \in {NoResult, OkResult}
        /\ rpc = "done" <=> result = OkResult

C19_Witness ==
    /\ kind = "read_exact_at" /\ start >= 1
    /\ buflen = 0 /\ Succeeded /\ calls = << >>


(***************************************************************************)
(* Properties of the operation constructors                                *)
(***************************************************************************)
\* a submission entry the OS holds for future f
Held(f) == {s \in inflight : s.f = f}

\* C8: open on a path with an embedded NUL resolves to InvalidFilename, hands
\* nothing to the driver and never suspends; open on a path without one, once
\* polled, has called submit exactly once, with an OpenAt entry.
C8_OpenChecksPathFirst ==
    \A f \in Futs :
        fut[f].op = "open" =>
            /\ fut[f].nul =>
                  /\ submitted[f] = << >>
                  /\ Held(f) = {}
                  /\ slots[f].state = "Free"
                  /\ ~fut[f].suspended
                  /\ fut[f].st \in {"NotSubmitted", "Done"}
                  /\ fut[f].st = "Done" => fut[f].out = OutErr("InvalidFilename", 0)
            /\ (~fut[f].nul /\ fut[f].st # "NotSubmitted") =>
                  /\ Len(submitted[f]) = 1
                  /\ submitted[f][1].opcode = "OpenAt"
                  /\ Cardinality(Held(f)) <= 1

C8_Witness ==
    \E f, g \in Futs :
        /\ fut[f].op = "open" /\ fut[f].nul /\ fut[f].st = "Done"
        /\ fut[g].op = "open" /\ ~fut[g].nul /\ fut[g].st = "Pending"
        /\ Held(g) # {}

\* C9: the peer address a successful accept returns is the content of the
\* address buffer (and address length) as the OS filled it at completion.
C9_AcceptReturnsFilledAddress ==
    \A f \in Futs :
        (fut[f].op = "accept" /\ fut[f].st = "Done" /\ fut[f].out.tag = "Ok") =>
            fut[f].out.addr = mem[f].val

C11_SubmitFailureResolvesAtOnce ==
    \A f \in Futs :
        /\ (Len(submitted[f]) >= 1 /\ ~submitted[f][1].ok) =>
              /\ Len(submitted[f]) = 1
              /\ fut[f].st = "Done"
              /\ fut[f].out = OutErr("ResourceExhausted", 0)
              /\ ~fut[f].suspended
              /\ slots[f].state = "Free"
              /\ Held(f) = {}
              /\ \A c \in cq : c.id # f
        /\ fut[f].out.kind = "ResourceExhausted" =>
              (Len(submitted[f]) = 1 /\ ~submitted[f][1].ok)

\* an accept rejected by the full driver while another operation is pending
C11_Witness ==
    \E f, g \in Futs :
        /\ fut[f].op = "accept" /\ fut[f].st = "Done"
        /\ fut[f].out = OutErr("ResourceExhausted", 0)
        /\ fut[g].st = "Pending" /\ Held(g) # {}

\* the completion of future f's submission has been delivered by drive()
Delivered(f) ==
    \/ slots[f].state = "Completed"
    \/ (fut[f].st = "Done" /\ Len(submitted[f]) = 1 /\ submitted[f][1].ok)

\* C14: every constructor submits lazily and at most once: a future that was
\* built and not polled has made no call of submit and has nothing with the
\* driver or the OS; a future that was polled made exactly one call of submit
\* (none for an open whose path is refused), whatever number of polls
\* followed; and the OS and the completion queue together hold at most one
\* entry of it.
C14_SubmitsLazilyAndOnce ==
    \A f \in Futs :
        /\ Len(submitted[f]) <= 1
        /\ fut[f].st = "NotSubmitted" =>
              /\ submitted[f] = << >>
              /\ Held(f) = {}
              /\ slots[f].state = "Free"
              /\ \A c \in cq : c.id # f
        /\ fut[f].st \in {"Pending", "Done", "Dropping"} =>
              Len(submitted[f]) = IF PathError(f) THEN 0 ELSE 1
        /\ Cardinality(Held(f)) + Cardinality({c \in cq : c.id = f}) <= 1

\* one future resolved by a later poll after its single submit, another built
\* and not polled yet
C14_Witness ==
    \E f, g \in Futs :
        /\ fut[f].op = "read" /\ fut[f].st = "Done" /\ fut[f].out.tag = "Ok"
        /\ Len(submitted[f]) = 1 /\ submitted[f][1].ok
        /\ fut[g].op = "close" /\ fut[g].st = "NotSubmitted"

\* the future resolved with the result of the operation it submitted
Completed(f) == fut[f].st = "Done" /\ Len(submitted[f]) = 1 /\ submitted[f][1].ok

\* C15: for every constructor, a negative raw result of the operation is the
\* error of that operation's own future, with the same OS code; the success
\* mapping is applied to non-negative results only (the descriptor or the byte
\* count is the raw result, the others discard it), and a future is Ok only
\* if its raw result was not negative.
C15_OsErrorSurfacesUnchanged ==
    \A f \in Futs :
        Completed(f) =>
            /\ fut[f].raw < 0 => fut[f].out = OutErr("Os", 0 - fut[f].raw)
            /\ fut[f].raw >= 0 =>
                  /\ fut[f].out.tag = "Ok"
                  /\ fut[f].out.val =
                        IF fut[f].op \in {"accept", "open", "read", "write"}
                        THEN fut[f].raw ELSE 0
            /\ fut[f].out.tag = "Ok" <=> fut[f].raw >= 0

\* a read that failed with ENOENT next to an open that returned a descriptor
C15_Witness ==
    \E f, g \in Futs :
        /\ Completed(f) /\ fut[f].op = "read" /\ fut[f].raw = 0 - ENOENT
        /\ fut[f].out = OutErr("Os", ENOENT)
        /\ Completed(g) /\ fut[g].op = "open" /\ fut[g].raw = 5
        /\ fut[g].out.tag = "Ok"

\* C12: with several operations pending, drive() wakes the future whose
\* completion it delivers, exactly once, and no other: a future has been woken
\* once if the completion of its own submission was delivered and not at all
\* otherwise, whatever was delivered to the others; a completed slot belongs
\* to the pending future that submitted it and was completed once.
C12_DriveWakesOnlyTheSubmitter ==
    \A f \in Futs :
        /\ wakes[f] = IF Delivered(f) THEN 1 ELSE 0
        /\ slots[f].state = "Pending" => (wakes[f] = 0 /\ fut[f].st = "Pending")
        /\ slots[f].state = "Completed" =>
              /\ slots[f].owner = f
              /\ fut[f].st = "Pending" /\ fut[f].id = f
              /\ Held(f) = {}
              /\ \A c \in cq : c.id # f

\* two operations pending at once; drive() has delivered the completion of
\* one, while the other is still with the OS
C12_Witness ==
    \E f, g \in Futs :
        /\ f # g
        /\ fut[f].st = "Pending" /\ slots[f].state = "Completed" /\ wakes[f] = 1
        /\ fut[g].st = "Pending" /\ slots[g].state = "Pending" /\ wakes[g] = 0
        /\ Held(g) # {}

(***************************************************************************)
(* Properties of the run queue                                             *)
(***************************************************************************)
\* the current drain has run every entry it set out to run
Drained == batch = 0 /\ current = NoTask

\* C13: draining the run queue once runs every task that was queued when the
\* drain began exactly once and no other task; a task that was run and queued
\* itself again is behind every task of the drain that has not run yet, so it
\* is not run a second time before them; and a queued task is run after at
\* most MaxTasks - 1 runs of other tasks, however many tasks yield or are
\* scheduled after it.
C13_DrainRunsEachOnce ==
    /\ \A t \in Tasks : ran[t] <= 1
    /\ Drained => \A t \in Tasks : ran[t] = IF t \in Queued(snap) THEN 1 ELSE 0
    /\ \A t, u \in Tasks :
          (/\ t \in Queued(runq) /\ ran[t] = 1
           /\ u \in Queued(snap) /\ ran[u] = 0) =>
              (u \in Queued(runq) /\ Place(runq, u) < Place(runq, t))
    /\ \A t \in Queued(runq) : waited[t] + Place(runq, t) <= MaxTasks

\* Scenario D: yield_now(T), then schedule(U), then one drain; T yielded again
\* when it was run and waits behind, run once like U
C13_Witness ==
    \E t, u \in Tasks :
        /\ t # u
        /\ snap = <<[task |-> t, by |-> "yield_now"], [task |-> u, by |-> "schedule"]>>
        /\ Drained
        /\ ran[t] = 1 /\ ran[u] = 1
        /\ t \in Queued(runq)

(***************************************************************************)
(* Properties of the entry-point rewrite                                   *)
(***************************************************************************)
Rewritten == expanded.tag = "Fn"
Rejected == expanded.tag = "Error"

\* the attribute holds the option num_threads = v
SuppliedThreads(v) ==
    \E i \in 1..Len(attr) : attr[i] = [path |-> "num_threads", lit |-> IntLit(v)]
\* the last option of the attribute is num_threads = v
SuppliedThreadsLast(v) ==
    Len(attr) >= 1 /\ attr[Len(attr)] = [path |-> "num_threads", lit |-> IntLit(v)]
\* the emitted builder chain calls num_threads(v)
AppliesThreads(v) ==
    \E i \in 1..Len(expanded.chain) : expanded.chain[i] = Call("num_threads", v)

\* a synchronous function whose body wraps the original body in an async block,
\* constructs a Builder, builds it and calls block_on on that block
Bootstrap ==
    LET c == expanded.chain
        n == Len(c)
    IN  /\ ~expanded.asyncness
        /\ expanded.inner = [asyncness |-> TRUE, block |-> item.block]
        /\ n \in {4, 5}
        /\ c[1] = Call("photonio::runtime::Builder::new", NoValue)
        /\ c[n - 2] = Call("build", NoValue)
        /\ c[n - 1] = Call("expect", NoValue)
        /\ c[n] = Call("block_on", NoValue)
        /\ n = 5 => c[2].call = "num_threads"

\* C16 as stated: the rewrite produces a synchronous function that constructs
\* a Builder, applies num_threads(v) if and only if the attribute supplied
\* num_threads = v, builds it and calls block_on on the original body; the
\* test tag is there if and only if the test variant was used; an option name
\* other than num_threads is rejected with an error and nothing is rewritten.
C16_AppliesSuppliedThreads ==
    /\ Rewritten =>
          /\ Bootstrap
          /\ \A v \in 1..MaxLit : AppliesThreads(v) <=> SuppliedThreads(v)
          /\ expanded.head = <<"#[::std::prelude::v1::test]">> <=> is_test
          /\ expanded.head # << >> <=> is_test
    /\ (expanded # NotExpanded /\ \E i \in 1..Len(attr) : attr[i].path # "num_threads")
          => Rejected

\* C16 amended: as stated, but num_threads(v) is applied if and only if
\* num_threads = v is the last option of the attribute (a later num_threads
\* replaces an earlier one); and the item is rewritten exactly when every
\* option is num_threads with an integer literal that fits usize and the item
\* is a function, every other expansion being an error.
C16_AppliesLastSuppliedThreads ==
    /\ Rewritten =>
          /\ Bootstrap
          /\ \A v \in 1..MaxLit : AppliesThreads(v) <=> SuppliedThreadsLast(v)
          /\ Len(expanded.chain) = IF attr = << >> THEN 4 ELSE 5
          /\ expanded.head = <<"#[::std::prelude::v1::test]">> <=> is_test
          /\ expanded.head # << >> <=> is_test
    /\ (expanded # NotExpanded /\ \E i \in 1..Len(attr) : attr[i].path # "num_threads")
          => Rejected
    /\ expanded # NotExpanded =>
          /\ Rewritten \/ Rejected
          /\ Rewritten <=>
                /\ item.isFn
                /\ \A i \in 1..Len(attr) :
                      attr[i].path = "num_threads" /\ attr[i].lit.kind = "Int"

\* #[photonio::test(num_threads = 1, num_threads = 2)] on an async fn
C16_Witness ==
    /\ attr = <<[path |-> "num_threads", lit |-> IntLit(1)],
                [path |-> "num_threads", lit |-> IntLit(2)]>>
    /\ item.isFn /\ item.asyncness
    /\ is_test /\ Rewritten
    /\ AppliesThreads(2) /\ ~AppliesThreads(1)

=============================================================================
